---------------------------- MODULE Spec2Model ----------------------------
(***************************************************************************)
(* A model of abfs: an in-memory file tree (fs.go) bridged to an Azure     *)
(* blob container (blob.go), as served to a 9p library.                    *)
(*                                                                         *)
(* A Go string is a sequence of one-character strings: "/a/b" is           *)
(* <<"/", "a", "/", "b">>.  A *File is the sequence of child indices that  *)
(* leads to it from the root: <<>> is the root, <<2, 1>> the first child   *)
(* of the root's second child.  A handler holds a pointer only while it    *)
(* runs, and the tree does not change while a listing holds one, so an     *)
(* index path names one File for as long as it is held.                    *)
(***************************************************************************)
EXTENDS Integers, Sequences, FiniteSets, TLC

VARIABLES
    root,           \* srv.File: the tree, a File record (see NewTree)
    remote,         \* the container: blob name -> bytes, for the blobs that exist
    ReaddirOffset,  \* fs.go:27, the process-wide listing offset
    reset,          \* fs.go:28, the reset channel: TRUE while a send waits
    enum,           \* history: the listings in progress, one per session
    made,           \* history: the paths created and not removed since
    proc,           \* the goroutine of each session: where it is in a call
    spare,          \* the bytes of a body's array past the body's end
    last            \* history: the last call made, its arguments and results

vars ==
    <<root, remote, ReaddirOffset, reset, enum, made, proc, spare, last>>

----------------------------------------------------------------------------
(* Bounds of the model.                                                    *)

\* Files in the tree, the root included.
MaxEntries == 4
\* Bytes a body buffer holds.
MaxBody == 2
\* Bytes one WriteAt call carries, and one ReadAt call asks for.
MaxData == 1
\* The largest page size a Readdir call asks for.
MaxPage == 2
\* Files in the tree of the listing specification, the root included.
MaxListEntries == 3

----------------------------------------------------------------------------
(* Strings, and the Go standard library's path and strings functions.      *)

nil == "nil"
EOF == "EOF"

Slash == "/"
Dot == "."

\* strings.LastIndex(s, "/") + 1: the 1-based place of the last slash, or 0.
RECURSIVE LastSlash(_, _)
LastSlash(s, i) ==
    IF i = 0 THEN 0
    ELSE IF s[i] = Slash THEN i
    ELSE LastSlash(s, i - 1)

\* path.Split: the text up to and including the last slash, and the rest.
PathSplit(full) ==
    LET i == LastSlash(full, Len(full))
    IN  [dir |-> SubSeq(full, 1, i), file |-> SubSeq(full, i + 1, Len(full))]

\* strings.Split(s, "/"): the pieces between slashes; never empty.
RECURSIVE SplitFrom(_, _, _, _)
SplitFrom(s, i, cur, acc) ==
    IF i > Len(s) THEN Append(acc, cur)
    ELSE IF s[i] = Slash THEN SplitFrom(s, i + 1, <<>>, Append(acc, cur))
    ELSE SplitFrom(s, i + 1, Append(cur, s[i]), acc)

StringsSplit(s) == SplitFrom(s, 1, <<>>, <<>>)

\* path.Clean's backtrack over a ".." element: out.w after the loop.
RECURSIVE Backtrack(_, _, _)
Backtrack(out, w, dotdot) ==
    IF w > dotdot /\ out[w + 1] # Slash
    THEN Backtrack(out, w - 1, dotdot)
    ELSE w

\* path.Clean's copy of one path element: the reading place after it.
RECURSIVE ElementEnd(_, _)
ElementEnd(p, r) ==
    IF r <= Len(p) /\ p[r] # Slash THEN ElementEnd(p, r + 1) ELSE r

\* path.Clean's main loop: r is the next place to read, out the output.
RECURSIVE CleanLoop(_, _, _, _, _)
CleanLoop(p, r, out, dotdot, rooted) ==
    LET n == Len(p) IN
    IF r > n THEN out
    ELSE IF p[r] = Slash THEN CleanLoop(p, r + 1, out, dotdot, rooted)
    ELSE IF p[r] = Dot /\ (r = n \/ p[r + 1] = Slash)
    THEN CleanLoop(p, r + 1, out, dotdot, rooted)
    ELSE IF p[r] = Dot /\ p[r + 1] = Dot /\ (r + 1 = n \/ p[r + 2] = Slash)
    THEN IF Len(out) > dotdot
         THEN CleanLoop(p, r + 2,
                        SubSeq(out, 1, Backtrack(out, Len(out) - 1, dotdot)),
                        dotdot, rooted)
         ELSE IF ~rooted
         THEN LET o == (IF Len(out) > 0 THEN Append(out, Slash) ELSE out)
                       \o <<Dot, Dot>>
              IN  CleanLoop(p, r + 2, o, Len(o), rooted)
         ELSE CleanLoop(p, r + 2, out, dotdot, rooted)
    ELSE LET o == IF (rooted /\ Len(out) # 1) \/ (~rooted /\ Len(out) # 0)
                  THEN Append(out, Slash) ELSE out
             e == ElementEnd(p, r)
         IN  CleanLoop(p, e, o \o SubSeq(p, r, e - 1), dotdot, rooted)

\* path.Clean: the shortest path equivalent to p.
Clean(p) ==
    IF p = <<>> THEN <<Dot>>
    ELSE LET rooted == p[1] = Slash
             out == CleanLoop(p, IF rooted THEN 2 ELSE 1,
                              IF rooted THEN <<Slash>> ELSE <<>>,
                              IF rooted THEN 1 ELSE 0, rooted)
         IN  IF out = <<>> THEN <<Dot>> ELSE out

----------------------------------------------------------------------------
(* The tree.                                                               *)

\* NewTree: the stub root directory; it has no Blob.
NewTree ==
    [name |-> <<Slash>>, dir |-> TRUE, blob |-> FALSE, body |-> <<>>,
     Children |-> <<>>]

\* The File a pointer (an index path from t) names.
RECURSIVE NodeAt(_, _)
NodeAt(t, ptr) ==
    IF ptr = <<>> THEN t ELSE NodeAt(t.Children[Head(ptr)], Tail(ptr))

\* The tree with the File at ptr replaced by node.
RECURSIVE ReplaceAt(_, _, _)
ReplaceAt(t, ptr, node) ==
    IF ptr = <<>> THEN node
    ELSE [t EXCEPT !.Children[Head(ptr)] = ReplaceAt(@, Tail(ptr), node)]

\* Every pointer into the tree, the root's first.
RECURSIVE Pointers(_)
Pointers(t) ==
    {<<>>} \cup UNION {{<<i>> \o q : q \in Pointers(t.Children[i])} :
                       i \in 1..Len(t.Children)}

\* The place of the first child called name, or 0: the loops over Children.
RECURSIVE IndexOfName(_, _, _)
IndexOfName(children, name, i) ==
    IF i > Len(children) THEN 0
    ELSE IF children[i].name = name THEN i
    ELSE IndexOfName(children, name, i + 1)


\* A nil *File: no index path leads to it.
NilFile == <<0>>

ErrNotFound == "could not find file"
ErrNoParent == "could not find parent directory"
ErrExists == "exists"
ErrNoChild == "could not find child"
ErrList == "could not list blobs from container"
ErrInsert == "could not insert remote blobs into fs"
ErrUpload == "upload failed"
Panic == "panic"

\* File.Search's loop: every segment is looked up among t.Children, the
\* children of the File Search was called on, and found is the last match.
RECURSIVE SearchLoop(_, _, _)
SearchLoop(t, files, found) ==
    IF files = <<>> THEN [found |-> found, err |-> nil]
    ELSE LET i == IndexOfName(t.Children, Head(files), 1)
         IN  IF i = 0 THEN [found |-> NilFile, err |-> ErrNotFound]
             ELSE SearchLoop(t, Tail(files), <<i>>)

\* File.Search: clean, split at the slashes, drop the first piece, walk.
Search(t, full) == SearchLoop(t, Tail(StringsSplit(Clean(full))), <<>>)

\* File.NewChild: t with a new last child, which always gets a Blob.
NewChild(t, name, isDir) ==
    [t EXCEPT !.Children = Append(@,
        [name |-> name, dir |-> isDir, blob |-> TRUE, body |-> <<>>,
         Children |-> <<>>])]

\* Insert without the test for a sibling of the same name.
InsertUnchecked(t, full, isDir) ==
    LET sp == PathSplit(full)
        s == IF sp.dir = <<Slash>> THEN [found |-> <<>>, err |-> nil]
             ELSE Search(t, sp.dir)
    IN  IF s.err # nil THEN [tree |-> t, f |-> <<>>, err |-> ErrNoParent]
        ELSE LET parent == NodeAt(t, s.found)
             IN  [tree |-> ReplaceAt(t, s.found, NewChild(parent, sp.file, isDir)),
                  f |-> Append(s.found, Len(parent.Children) + 1),
                  err |-> nil]

\* File.Insert: the new tree, the File returned (the root on an error) and
\* the error.
Insert(t, full, isDir) ==
    LET sp == PathSplit(full)
        s == IF sp.dir = <<Slash>> THEN [found |-> <<>>, err |-> nil]
             ELSE Search(t, sp.dir)
    IN  IF s.err # nil THEN [tree |-> t, f |-> <<>>, err |-> ErrNoParent]
        ELSE LET parent == NodeAt(t, s.found)
             IN  IF IndexOfName(parent.Children, sp.file, 1) # 0
                 THEN [tree |-> t, f |-> <<>>, err |-> ErrExists]
                 ELSE [tree |-> ReplaceAt(t, s.found,
                                          NewChild(parent, sp.file, isDir)),
                       f |-> Append(s.found, Len(parent.Children) + 1),
                       err |-> nil]

\* Delete that finds the child and reports success, the cut slice never
\* stored in parent.Children.
DeleteUnstored(t, full) ==
    LET sp == PathSplit(full)
        s == IF sp.dir = <<Slash>> THEN [found |-> <<>>, err |-> nil]
             ELSE Search(t, sp.dir)
    IN  IF s.err # nil THEN [tree |-> t, err |-> ErrNoParent]
        ELSE IF IndexOfName(NodeAt(t, s.found).Children, sp.file, 1) = 0
        THEN [tree |-> t, err |-> ErrNoChild]
        ELSE [tree |-> t, err |-> nil]

\* File.Delete: cut the first child of that name out of its parent's slice.
Delete(t, full) ==
    LET sp == PathSplit(full)
        s == IF sp.dir = <<Slash>> THEN [found |-> <<>>, err |-> nil]
             ELSE Search(t, sp.dir)
    IN  IF s.err # nil THEN [tree |-> t, err |-> ErrNoParent]
        ELSE LET parent == NodeAt(t, s.found)
                 i == IndexOfName(parent.Children, sp.file, 1)
             IN  IF i = 0 THEN [tree |-> t, err |-> ErrNoChild]
                 ELSE [tree |-> ReplaceAt(t, s.found,
                           [parent EXCEPT !.Children =
                               SubSeq(@, 1, i - 1) \o SubSeq(@, i + 1, Len(@))]),
                       err |-> nil]

\* File.Len: the number of files in the tree, t included.
RECURSIVE FileLen(_)
RECURSIVE SumLen(_, _)
SumLen(children, i) ==
    IF i > Len(children) THEN 0
    ELSE FileLen(children[i]) + SumLen(children, i + 1)

FileLen(t) == 1 + SumLen(t.Children, 1)

----------------------------------------------------------------------------
(* The container, and Sync.                                                *)

\* The blob names other clients of the container use, in the order the
\* service lists them (by name).
BlobOrder == << <<"a", Slash, "b">>, <<"b">> >>

\* ListBlobs: the names of the container's blobs, or the listing's error.
ListBlobs(store, listOk) ==
    LET Present(n) == n \in DOMAIN store
    IN  IF listOk THEN [names |-> SelectSeq(BlobOrder, Present), err |-> nil]
        ELSE [names |-> <<>>, err |-> ErrList]

\* missingLocally: the remote names that no local name equals, in order.
missingLocally(locals, remotes) ==
    LET Missing(n) == \A i \in 1..Len(locals) : locals[i] # n
    IN  SelectSeq(remotes, Missing)

\* File.Sync's loop over diff: the first Insert that fails ends it.
RECURSIVE SyncLoop(_, _)
SyncLoop(t, diff) ==
    IF diff = <<>> THEN [tree |-> t, err |-> nil]
    ELSE LET r == Insert(t, <<Slash>> \o Head(diff), FALSE)
         IN  IF r.err # nil THEN [tree |-> t, err |-> ErrInsert]
             ELSE SyncLoop(r.tree, Tail(diff))

\* File.Sync: insert, under the root, the remote names missing locally.
Sync(t, store, listOk) ==
    LET l == ListBlobs(store, listOk)
        locals == [i \in 1..Len(t.Children) |-> t.Children[i].name]
    IN  IF l.err # nil THEN [tree |-> t, err |-> l.err]
        ELSE SyncLoop(t, missingLocally(locals, l.names))

----------------------------------------------------------------------------
(* Blob: the body buffer (a bytes.Buffer that is never read from, so its   *)
(* read offset stays 0) and the calls to the container.                    *)

\* bytes.Buffer: the capacity of a buffer's first array.  Every array of a
\* buffer is at least this long, so a Write that keeps the length within
\* it is done in place.
smallBufferSize == 64

Byte == {1, 2}

ByteSeqs(n) == UNION {[1..k -> Byte] : k \in 0..n}

\* bytes.Buffer.Write(p) on a buffer holding b: p appended, and whether the
\* bytes had to move to a new array.
BufferWrite(b, p) ==
    [body |-> b \o p, moved |-> Len(b) + Len(p) > smallBufferSize]

\* bytes.Buffer.Truncate(n): all but the first n bytes dropped; the array
\* stays.
BufferTruncate(b, n) == SubSeq(b, 1, n)

\* Blob.Contents: body.Bytes(), a slice of the buffer's own array.
Contents(node) == node.body

\* What a slice taken as Contents() of buf reads after the buffer was
\* truncated to off and p was written in place: the array's first Len(buf)
\* bytes, those from off on overwritten by p.
Aliased(buf, off, p) ==
    [i \in 1..Len(buf) |->
        IF i > off /\ i <= off + Len(p) THEN p[i - off] ELSE buf[i]]

\* Blob.Upload: the whole body stored under the blob's name, or an error.
Upload(store, name, body, uploadOk) ==
    IF uploadOk THEN [store |-> (name :> body) @@ store, err |-> nil]
    ELSE [store |-> store, err |-> ErrUpload]

\* Blob.Download: the body replaced by the blob's bytes.  When the request
\* fails the response is nil and resp.Body dereferences it.
Download(node, store, downloadOk) ==
    IF ~downloadOk \/ node.name \notin DOMAIN store
    THEN [node |-> node, err |-> Panic]
    ELSE [node |-> [node EXCEPT !.body = store[node.name]], err |-> nil]

\* File.Size (fs.go): 0 for a directory, the length of the body otherwise.
Size(node) == IF node.dir THEN 0 ELSE Len(Contents(node))

\* The result of a WriteAt call whose Sync returned syncErr, before the
\* call's own outcome is filled in.
WriteResult(t, store, syncErr) ==
    [tree |-> t, store |-> store, n |-> 0, err |-> nil, syncErr |-> syncErr,
     uploaded |-> FALSE]

\* The end of WriteAt: the body now is w.body and u is the upload's
\* outcome.  When the upload failed the body is reset and view, what buf
\* reads by then, is written back.
WriteUpload(base, f, node, p, w, u, view) ==
    IF u.err # nil
    THEN [base EXCEPT !.err = u.err,
             !.tree = ReplaceAt(base.tree, f,
                         [node EXCEPT !.body = BufferWrite(<<>>, view).body])]
    ELSE [base EXCEPT !.n = Len(p), !.store = u.store, !.uploaded = TRUE,
             !.tree = ReplaceAt(base.tree, f, [node EXCEPT !.body = w.body])]

\* WriteAt after its Sync, that never truncates: p is appended whatever the
\* offset.
WriteAppend(base, f, node, p, off, uploadOk) ==
    IF off > Len(Contents(node)) THEN [base EXCEPT !.err = EOF]
    ELSE WriteUpload(base, f, node, p, BufferWrite(Contents(node), p),
             Upload(base.store, node.name, Contents(node) \o p, uploadOk),
             Contents(node))

\* WriteAt after its Sync, without the test of the offset against the
\* length: a write past the end is appended and uploaded.
WriteBufferAnywhere(base, f, node, p, off, uploadOk) ==
    LET buf == Contents(node)
        kept == IF off < Len(buf) THEN BufferTruncate(buf, off) ELSE buf
        w == BufferWrite(kept, p)
    IN  WriteUpload(base, f, node, p, w,
            Upload(base.store, node.name, w.body, uploadOk),
            IF w.moved THEN buf ELSE Aliased(buf, off, p))

\* WriteAt after its Sync, that uploads the bytes written instead of the
\* body.
WriteBufferRange(base, f, node, p, off, uploadOk) ==
    LET buf == Contents(node)
        kept == IF off < Len(buf) THEN BufferTruncate(buf, off) ELSE buf
        w == BufferWrite(kept, p)
    IN  IF off > Len(buf) THEN [base EXCEPT !.err = EOF]
        ELSE WriteUpload(base, f, node, p, w,
                 Upload(base.store, node.name, p, uploadOk),
                 IF w.moved THEN buf ELSE Aliased(buf, off, p))

\* WriteAt after its Sync.  buf is Contents(), a slice of the buffer's
\* array, so after Truncate and an in-place Write it reads the new bytes.
WriteBuffer(base, f, node, p, off, uploadOk) ==
    LET buf == Contents(node)
        kept == IF off < Len(buf) THEN BufferTruncate(buf, off) ELSE buf
        w == BufferWrite(kept, p)
    IN  IF off > Len(buf) THEN [base EXCEPT !.err = EOF]
        ELSE WriteUpload(base, f, node, p, w,
                 Upload(base.store, node.name, w.body, uploadOk),
                 IF w.moved THEN buf ELSE Aliased(buf, off, p))

WriteSynced(s, store, f, p, off, uploadOk) ==
    WriteBuffer(WriteResult(s.tree, store, s.err), f, NodeAt(s.tree, f), p,
                off, uploadOk)

WriteSyncedAppend(s, store, f, p, off, uploadOk) ==
    WriteAppend(WriteResult(s.tree, store, s.err), f, NodeAt(s.tree, f), p,
                off, uploadOk)

\* WriteAt that appends p instead of writing it from the offset on.
WriteAtAppend(t, store, f, p, off, listOk, uploadOk) ==
    WriteSyncedAppend(Sync(t, store, listOk), store, f, p, off, uploadOk)

\* WriteAt that downloads the blob into the body before it takes buf.
WriteAtRemote(t, store, f, p, off, listOk, uploadOk) ==
    WriteSynced([Sync(t, store, listOk) EXCEPT
                    !.tree = ReplaceAt(@, f,
                                 Download(NodeAt(@, f), store, TRUE).node)],
                store, f, p, off, uploadOk)

\* File.WriteAt, for a File that has a Blob.  Sync's error is dropped.
WriteAt(t, store, f, p, off, listOk, uploadOk) ==
    WriteSynced(Sync(t, store, listOk), store, f, p, off, uploadOk)

\* The result of a ReadAt call whose Sync returned syncErr, before the
\* call's own outcome is filled in.
ReadResult(t, syncErr) ==
    [tree |-> t, n |-> 0, data |-> <<>>, err |-> nil, syncErr |-> syncErr,
     downloaded |-> FALSE]

\* ReadAt with the offset compared by > instead of >=: a read at the very
\* end copies nothing and signals nothing.
ReadCopyPast(syncErr, t, f, plen, offset) ==
    LET node == NodeAt(t, f)
        buf == Contents(node)
        n == IF plen < Len(buf) - offset THEN plen ELSE Len(buf) - offset
        base == [ReadResult(t, syncErr) EXCEPT !.downloaded = TRUE]
    IN  IF offset > Size(node) THEN [base EXCEPT !.err = EOF]
        ELSE [base EXCEPT !.n = n,
                          !.data = SubSeq(buf, offset + 1, offset + n)]

\* The end of ReadAt: the comparison with Size() and the copy out of the
\* body, in the tree t that the Syncs of Size and IsDir left.
ReadCopy(syncErr, t, f, plen, offset) ==
    LET node == NodeAt(t, f)
        buf == Contents(node)
        n == IF plen < Len(buf) - offset THEN plen ELSE Len(buf) - offset
        base == [ReadResult(t, syncErr) EXCEPT !.downloaded = TRUE]
    IN  IF offset >= Size(node) THEN [base EXCEPT !.err = EOF]
        ELSE [base EXCEPT !.n = n,
                          !.data = SubSeq(buf, offset + 1, offset + n)]

\* ReadAt after its Download (whose error is dropped, d.err being the
\* panic of a nil response): Size syncs, and so does the IsDir it calls.
ReadLoaded(s, d, store, f, plen, offset, listOk) ==
    IF d.err # nil THEN [ReadResult(s.tree, s.err) EXCEPT !.err = d.err]
    ELSE ReadCopy(s.err,
             Sync(Sync(ReplaceAt(s.tree, f, d.node), store, listOk).tree,
                  store, listOk).tree,
             f, plen, offset)

ReadSynced(s, store, f, plen, offset, listOk, downloadOk) ==
    ReadLoaded(s, Download(NodeAt(s.tree, f), store, downloadOk), store, f,
               plen, offset, listOk)

\* File.ReadAt, for a File that has a Blob, into a p of plen bytes.  Sync's
\* error is dropped; listOk is the outcome of the listings of the call: of
\* ReadAt's own Sync, of Size's and of IsDir's.
ReadAt(t, store, f, plen, offset, listOk, downloadOk) ==
    ReadSynced(Sync(t, store, listOk), store, f, plen, offset, listOk,
               downloadOk)

\* The File pointers of the children of the File at f.
ChildPointers(t, f) ==
    [i \in 1..Len(NodeAt(t, f).Children) |-> Append(f, i)]

\* Readdir after its Sync: all are the children, lim the bound of the loop,
\* which runs i from the offset while i < n and i < len(f.Children).
ReaddirLoop(base, all, lim) ==
    LET stop == IF base.offset < lim THEN lim ELSE base.offset
    IN  IF Len(all) = 0 THEN [base EXCEPT !.err = EOF]
        ELSE IF base.offset >= Len(all)
        THEN [base EXCEPT !.err = EOF, !.reset = TRUE]
        ELSE [base EXCEPT !.info = SubSeq(all, base.offset + 1, stop),
                          !.offset = stop,
                          !.err = IF stop >= Len(all) THEN EOF ELSE nil]

ReaddirSynced(t, f, offset, n) ==
    ReaddirLoop([tree |-> t, info |-> <<>>, err |-> nil, offset |-> offset,
                 reset |-> FALSE],
                ChildPointers(t, f),
                IF n <= 0 \/ n > Len(NodeAt(t, f).Children)
                THEN Len(NodeAt(t, f).Children) ELSE n)

\* File.Readdir (fs.go) on the File at f, the global offset being offset:
\* the infos returned, the error, the offset left behind and whether a
\* reset was sent.
Readdir(t, store, f, offset, n, listOk) ==
    ReaddirSynced(Sync(t, store, listOk).tree, f, offset, n)

----------------------------------------------------------------------------
(* The state machine.  Each handler runs as one step; the 9p sessions that *)
(* call them are the environment.                                          *)

Sessions == {1, 2}

\* A goroutine that is in no call.  In a call, pc is the statement it is
\* at and the other fields are the locals of the call.
Resting ==
    [pc |-> "rest", f |-> NilFile, len |-> 0, names |-> <<>>, buf |-> <<>>,
     p |-> <<>>, off |-> 0]

\* A session that lists nothing.
Idle ==
    [active |-> FALSE, dir |-> <<>>, k |-> 0, got |-> <<>>, done |-> FALSE,
     alone |-> FALSE, overlap |-> FALSE]

\* The record of a call, before its fields are filled in.  off is the
\* offset of a WriteAt or ReadAt, plen the length of the buffer a ReadAt
\* was given and data the bytes a WriteAt wrote.
\* key is what a following call is paired by: the length written by a
\* WriteAt at offset 0 that succeeded; again says that this call follows
\* the call it is paired with (see the handlers), and data of a ReadAt
\* that does are the bytes it returned.
NoCall ==
    [op |-> "none", path |-> <<>>, isDir |-> FALSE, f |-> NilFile,
     err |-> nil, syncErr |-> nil, n |-> 0, lenBefore |-> 0, key |-> -1,
     off |-> 0, plen |-> 0, data |-> <<>>, again |-> FALSE,
     uploaded |-> FALSE, downloaded |-> FALSE]

NoBlobs == [n \in {} |-> <<>>]

Init ==
    /\ root = NewTree
    /\ remote = NoBlobs
    /\ ReaddirOffset = 0
    /\ reset = FALSE
    /\ enum = [s \in Sessions |-> Idle]
    /\ made = {}
    /\ proc = [s \in Sessions |-> Resting]
    /\ spare = <<>>
    /\ last = NoCall

\* Another client of the container stores a blob.
RemotePut(names, bodies) ==
    \E n \in names, b \in bodies :
        /\ remote' = (n :> b) @@ remote
        /\ last' = [NoCall EXCEPT !.op = "RemotePut", !.path = n]
        /\ UNCHANGED <<root, ReaddirOffset, reset, enum, made, proc, spare>>

\* Another client of the container deletes a blob.
RemoteDelete(names) ==
    \E n \in names \cap DOMAIN remote :
        /\ remote' = [m \in DOMAIN remote \ {n} |-> remote[m]]
        /\ last' = [NoCall EXCEPT !.op = "RemoteDelete", !.path = n]
        /\ UNCHANGED <<root, ReaddirOffset, reset, enum, made, proc, spare>>

\* A call of Insert on the root; max caps the size of the tree.
DoInsert(paths, kinds, max) ==
    \E p \in paths, d \in kinds :
        LET r == Insert(root, p, d) IN
        /\ FileLen(r.tree) <= max
        /\ root' = r.tree
        /\ last' = [NoCall EXCEPT !.op = "Insert", !.path = p, !.isDir = d,
                       !.f = r.f, !.err = r.err, !.lenBefore = FileLen(root),
                       !.again = (last.op = "Insert" /\ last.err = nil
                                  /\ last.path = p)]
        /\ made' = IF r.err = nil THEN made \cup {p} ELSE made
        /\ UNCHANGED <<remote, ReaddirOffset, reset, enum, proc, spare>>

\* A call of Delete on the root.
DoDelete(paths) ==
    \E p \in paths :
        LET r == Delete(root, p) IN
        /\ root' = r.tree
        /\ last' = [NoCall EXCEPT !.op = "Delete", !.path = p, !.err = r.err,
                       !.lenBefore = IF last.op = "Insert" THEN last.lenBefore
                                     ELSE FileLen(root),
                       !.again = (last.op = "Insert" /\ last.err = nil
                                  /\ last.path = p /\ ~last.isDir)]
        /\ made' = made \ {p}
        /\ UNCHANGED <<remote, ReaddirOffset, reset, enum, proc, spare>>

\* A call of Search on the root.
DoSearch(paths) ==
    \E p \in paths :
        LET r == Search(root, p) IN
        /\ last' = [NoCall EXCEPT !.op = "Search", !.path = p, !.err = r.err,
                       !.f = r.found]
        /\ UNCHANGED <<root, remote, ReaddirOffset, reset, enum, made, proc,
                       spare>>

\* A call of Sync on the root; the listing succeeds or fails.
DoSync(max) ==
    \E ok \in BOOLEAN :
        LET r == Sync(root, remote, ok) IN
        /\ FileLen(r.tree) <= max
        /\ root' = r.tree
        /\ last' = [NoCall EXCEPT !.op = "Sync", !.err = r.err,
                       !.lenBefore = FileLen(root)]
        /\ UNCHANGED <<remote, ReaddirOffset, reset, enum, made, proc, spare>>

\* The step of a WriteAt call on f, of p at off, that returned r.
WriteAtStep(f, p, off, r) ==
    /\ Len(NodeAt(r.tree, f).body) <= MaxBody
    /\ root' = r.tree
    /\ remote' = r.store
    /\ last' = [NoCall EXCEPT !.op = "WriteAt", !.f = f, !.n = r.n,
                   !.err = r.err, !.syncErr = r.syncErr,
                   !.uploaded = r.uploaded,
                   !.key = IF r.err = nil /\ off = 0 THEN r.n ELSE -1,
                   !.off = off, !.data = IF r.err = nil THEN p ELSE <<>>,
                   !.lenBefore = IF r.err = nil
                                 THEN Len(NodeAt(root, f).body) ELSE 0]
    /\ UNCHANGED <<ReaddirOffset, reset, enum, made, proc, spare>>

\* A call of WriteAt on a File that has a Blob; the listing and the upload
\* each succeed or fail.
DoWriteAt ==
    \E f \in Pointers(root), p \in ByteSeqs(MaxData), off \in 0..MaxBody,
       ok \in BOOLEAN, up \in BOOLEAN :
        /\ NodeAt(root, f).blob
        /\ WriteAtStep(f, p, off, WriteAt(root, remote, f, p, off, ok, up))

\* The step of a ReadAt call on f, for plen bytes at off, that returned r;
\* again: the call
\* reads, from offset 0, as many bytes as the WriteAt before it wrote to f
\* at offset 0.
ReadAtStep(f, plen, off, again, r) ==
    /\ root' = r.tree
    /\ last' = [NoCall EXCEPT !.op = "ReadAt", !.f = f, !.n = r.n,
                   !.err = r.err, !.syncErr = r.syncErr,
                   !.downloaded = r.downloaded, !.again = again,
                   !.off = off, !.plen = plen,
                   !.data = IF again THEN r.data ELSE <<>>]
    /\ UNCHANGED <<remote, ReaddirOffset, reset, enum, made, proc, spare>>

\* A call of ReadAt on a File that has a Blob, with a buffer of plen bytes;
\* the listings of the call and the download succeed or fail.
DoReadAt ==
    \E f \in Pointers(root), plen \in 0..MaxData, off \in 0..MaxBody,
       ok \in BOOLEAN, dl \in BOOLEAN :
        /\ NodeAt(root, f).blob
        /\ ReadAtStep(f, plen, off, last.op = "WriteAt" /\ last.f = f
                                    /\ last.key = plen /\ off = 0,
                      ReadAt(root, remote, f, plen, off, ok, dl))

\* The step of a Size call on f in the tree t that its Sync and the Sync
\* of the IsDir it calls left.
SizeStep(f, t) ==
    /\ FileLen(t) <= MaxEntries
    /\ root' = t
    /\ last' = [NoCall EXCEPT !.op = "Size", !.f = f,
                   !.n = Size(NodeAt(t, f))]
    /\ UNCHANGED <<remote, ReaddirOffset, reset, enum, made, proc, spare>>

\* A call of Size on a File; the listings of the call succeed or fail.
DoSize ==
    \E f \in Pointers(root), ok \in BOOLEAN :
        SizeStep(f, Sync(Sync(root, remote, ok).tree, remote, ok).tree)

----------------------------------------------------------------------------
(* Spec: the tree under Insert, Delete, Search and Sync, one call at a     *)
(* time, while other clients add and delete blobs.                         *)

\* The paths Insert and Delete are called with: "/a", "/b", "/a/b" and
\* "/a/b/a".
TreePaths ==
    { <<Slash, "a">>, <<Slash, "b">>, <<Slash, "a", Slash, "b">>,
      <<Slash, "a", Slash, "b", Slash, "a">> }

\* The paths Search is called with: those, and "/".
SearchPaths == TreePaths \cup {<<Slash>>}

BlobNames == {BlobOrder[i] : i \in 1..Len(BlobOrder)}

TreeInsert == DoInsert(TreePaths, BOOLEAN, MaxEntries)
TreeDelete == DoDelete(TreePaths)
TreeSearch == DoSearch(SearchPaths)
TreeSync == DoSync(MaxEntries)
TreePut == RemotePut(BlobNames, {<<>>})
TreeRemoteDelete == RemoteDelete(BlobNames)

Next ==
    \/ TreeInsert
    \/ TreeDelete
    \/ TreeSearch
    \/ TreeSync
    \/ TreePut
    \/ TreeRemoteDelete

Spec == Init /\ [][Next]_vars

----------------------------------------------------------------------------
(* SpecContent: one file, "/b", created by Insert or found by Sync, read,  *)
(* written and measured while other clients store blob "b".                *)

ContentPaths == { <<Slash, "b">> }
ContentBlobs == { <<"b">> }

ContentInsert == DoInsert(ContentPaths, BOOLEAN, MaxEntries)
ContentSync == DoSync(MaxEntries)
ContentPut == RemotePut(ContentBlobs, ByteSeqs(MaxBody))

NextContent ==
    \/ ContentInsert
    \/ ContentSync
    \/ ContentPut
    \/ DoWriteAt
    \/ DoReadAt
    \/ DoSize

SpecContent == Init /\ [][NextContent]_vars


----------------------------------------------------------------------------
(* SpecList: sessions that list directories with Readdir.  A session       *)
(* begins a listing of a directory with a page size, calls Readdir until   *)
(* it is told EOF, and ends the listing.  The tree changes only while no   *)
(* listing is under way.                                                   *)

ListPaths == { <<Slash, "a">>, <<Slash, "b">>, <<Slash, "a", Slash, "b">> }

\* The names of the children of the File at f, in the order of f.Children.
ChildNames(t, f) ==
    [i \in 1..Len(NodeAt(t, f).Children) |-> NodeAt(t, f).Children[i].name]

\* A listing that is under way.
Listing(s) == enum[s].active /\ ~enum[s].done

ListInsert ==
    /\ \A s \in Sessions : ~enum[s].active
    /\ DoInsert(ListPaths, BOOLEAN, MaxListEntries)

\* Session s begins to list a directory, with page size k (0: everything).
\* alone: the listing starts at the initial offset and no other listing is
\* under way; overlap: another listing is under way.
ListBegin(s) ==
    \E f \in Pointers(root), k \in 0..MaxPage :
        /\ ~enum[s].active
        /\ NodeAt(root, f).dir
        /\ enum' = [t \in Sessions |->
              IF t = s
              THEN [Idle EXCEPT !.active = TRUE, !.dir = f, !.k = k,
                       !.alone = (ReaddirOffset = 0 /\ ~reset
                                  /\ \A u \in Sessions \ {s} : ~Listing(u)),
                       !.overlap = (\E u \in Sessions \ {s} : Listing(u))]
              ELSE IF Listing(t) THEN [enum[t] EXCEPT !.overlap = TRUE]
              ELSE enum[t]]
        /\ last' = [NoCall EXCEPT !.op = "ListBegin", !.f = f]
        /\ UNCHANGED <<root, remote, ReaddirOffset, reset, made, proc, spare>>

\* The step of a Readdir call of session s that returned r, the entries of
\* the page being named names.  again alternates over the Readdir calls
\* made in a row, so that each call is a step of its own.
ReaddirStep(s, r, names) ==
    /\ Len(enum[s].got) + Len(names) <= MaxListEntries
    /\ root' = r.tree
    /\ ReaddirOffset' = r.offset
    /\ reset' = (reset \/ r.reset)
    /\ enum' = [t \in Sessions |->
          IF t = s
          THEN [enum[s] EXCEPT !.got = @ \o names, !.done = (r.err = EOF)]
          ELSE IF enum[t].active THEN [enum[t] EXCEPT !.alone = FALSE]
          ELSE enum[t]]
    /\ last' = [NoCall EXCEPT !.op = "Readdir", !.f = enum[s].dir,
                   !.err = r.err, !.n = Len(names),
                   !.again = (last.op = "Readdir" /\ ~last.again)]
    /\ UNCHANGED <<remote, made, proc, spare>>

ReaddirNamed(s, r) ==
    ReaddirStep(s, r, [i \in 1..Len(r.info) |-> NodeAt(r.tree, r.info[i]).name])

\* Session s calls Readdir on its directory.
DoReaddir(s) ==
    \E ok \in BOOLEAN :
        /\ Listing(s)
        /\ ReaddirNamed(s, Readdir(root, remote, enum[s].dir, ReaddirOffset,
                                   enum[s].k, ok))

\* Session s, told EOF, ends its listing.
ListEnd(s) ==
    /\ enum[s].active
    /\ enum[s].done
    /\ enum' = [enum EXCEPT ![s] = Idle]
    /\ last' = [NoCall EXCEPT !.op = "ListEnd"]
    /\ UNCHANGED <<root, remote, ReaddirOffset, reset, made, proc, spare>>

\* The receiver of the reset channel: the offset goes back to 0.
ResetOffset ==
    /\ reset
    /\ ReaddirOffset' = 0
    /\ reset' = FALSE
    /\ last' = [NoCall EXCEPT !.op = "ResetOffset"]
    /\ UNCHANGED <<root, remote, enum, made, proc, spare>>

NextList ==
    \/ ListInsert
    \/ \E s \in Sessions : ListBegin(s)
    \/ \E s \in Sessions : DoReaddir(s)
    \/ \E s \in Sessions : ListEnd(s)
    \/ ResetOffset

SpecList == Init /\ [][NextList]_vars

\* A session that lists goes on calling Readdir, and the reset is received.
SpecListFair ==
    /\ SpecList
    /\ \A s \in Sessions : WF_vars(DoReaddir(s))
    /\ WF_vars(ResetOffset)

----------------------------------------------------------------------------
(* What the claims are stated with.                                        *)

\* The body buffer of the File at f.
BodyAt(t, f) == NodeAt(t, f).body

\* No File at or below t has two children of one name.
RECURSIVE UniqueBelow(_)
UniqueBelow(t) ==
    /\ \A i, j \in 1..Len(t.Children) :
          t.Children[i].name = t.Children[j].name => i = j
    /\ \A i \in 1..Len(t.Children) : UniqueBelow(t.Children[i])

\* The walk the path resolution is described by: each segment is matched
\* among the children of the File matched before it, at being that File.
RECURSIVE Walk(_, _, _)
Walk(t, segs, at) ==
    IF segs = <<>> THEN [found |-> at, err |-> nil]
    ELSE LET i == IndexOfName(NodeAt(t, at).Children, Head(segs), 1)
         IN  IF i = 0 THEN [found |-> NilFile, err |-> ErrNotFound]
             ELSE Walk(t, Tail(segs), Append(at, i))

\* The segments of a path: the pieces between its slashes.
Segments(full) == SelectSeq(StringsSplit(Clean(full)), LAMBDA x : x # <<>>)

----------------------------------------------------------------------------
(* Claims on the tree, under Spec.                                         *)

\* C5: in every state reached by Insert, Delete and Sync calls made one at
\* a time, no directory has two children of the same name.
C5_SiblingNamesUnique == UniqueBelow(root)

\* C5 witness: an Insert was turned down as a duplicate in a tree that Sync
\* has added to and that holds siblings at two levels.
C5_Witness ==
    /\ last.op = "Insert"
    /\ last.err = ErrExists
    /\ Len(root.Children) >= 2
    /\ \E i \in 1..Len(root.Children) : Len(root.Children[i].Children) >= 1
    /\ \E i \in 1..Len(root.Children) :
          Append(<<Slash>>, root.Children[i].name) \notin made

\* C6: when a Sync has completed (its listing did not fail), search("/"+n)
\* succeeds for every name n of the listing that has no slash in it,
\* whatever the other names of the listing are.
C6_ReconcileSurfaces ==
    (last.op = "Sync" /\ last.err # ErrList)
        => \A n \in DOMAIN remote :
              Len(n) = 1 => Search(root, <<Slash>> \o n).err = nil

\* C8, as it is stated: once create(p) succeeded and no remove(p) was
\* called since, create(p) fails with already-exists and leaves the tree as
\* it was.
C8_DuplicateRejectedEver ==
    [][(last'.op = "Insert" /\ last'.path \in made)
           => (last'.err = ErrExists /\ root' = root)]_vars

\* C8, amended: a create(p) that directly follows a create(p) that
\* succeeded fails with already-exists and leaves the tree as it was.
C8_DuplicateRejected ==
    [][(last.op = "Insert" /\ last.err = nil
        /\ last'.op = "Insert" /\ last'.path = last.path)
           => (last'.err = ErrExists /\ root' = root)]_vars

\* C8 witness: a create of a nested path, made directly after the create of
\* the same path succeeded, was turned down.
C8_Witness ==
    /\ last.op = "Insert"
    /\ last.again
    /\ last.err = ErrExists
    /\ Len(last.path) > 2

\* C9: the remove(p) that directly follows a create(p, false) that
\* succeeded succeeds too, and leaves as many entries in the tree (the root
\* counted) as there were before the create.
C9_CreateRemoveInverse ==
    [][(last.op = "Insert" /\ last.err = nil /\ ~last.isDir
        /\ last'.op = "Delete" /\ last'.path = last.path)
           => (last'.err = nil /\ FileLen(root') = last.lenBefore)]_vars

\* C9 witness: such a remove was made, in a tree that holds other entries.
C9_Witness ==
    /\ last.op = "Delete"
    /\ last.again
    /\ last.err = nil
    /\ FileLen(root) = last.lenBefore
    /\ FileLen(root) >= 3

\* C10: search of a path of one segment or more returns the entry reached
\* by matching each segment among the children of the entry matched before
\* it, and fails with not-found at the first segment without a match.
C10_PathResolution ==
    (last.op = "Search" /\ Segments(last.path) # <<>>)
        => [found |-> last.f, err |-> last.err]
               = Walk(root, Segments(last.path), <<>>)

----------------------------------------------------------------------------
(* Claims on the content of files, under SpecContent.                      *)

\* C1: a WriteAt on a non-directory entry whose upload fails returns the
\* upload's error with 0 bytes written, and leaves the entry's buffer as
\* it was before the call.
C1_WriteRollback ==
    [][(last'.op = "WriteAt" /\ last'.err = ErrUpload
        /\ ~NodeAt(root, last'.f).dir)
           => (last'.n = 0 /\ BodyAt(root', last'.f) = BodyAt(root, last'.f))]_vars

\* C2: a ReadAt of len(b) bytes from offset 0 of a non-directory entry,
\* made directly after a WriteAt of b at offset 0 of that entry succeeded,
\* and whose download succeeds, returns exactly b.
C2_RoundTrip ==
    [][(last'.op = "ReadAt" /\ last'.again /\ last'.err # Panic
        /\ ~NodeAt(root, last'.f).dir)
           => last'.data = last.data]_vars

\* C2 witness: such a ReadAt returned bytes, from a buffer that held other
\* bytes before the WriteAt.
C2_Witness ==
    /\ last.op = "ReadAt"
    /\ last.again
    /\ last.err = nil
    /\ last.n >= 1
    /\ ~NodeAt(root, last.f).dir
    /\ last.data = BodyAt(root, last.f)

\* C7: a WriteAt or ReadAt whose reconciliation failed returns an error,
\* and makes no upload, no download and no change to the buffer.
C7_ReconcileFailureAborts ==
    [][(last'.op \in {"WriteAt", "ReadAt"} /\ last'.syncErr # nil)
           => /\ last'.err # nil
              /\ ~last'.uploaded
              /\ ~last'.downloaded
              /\ remote' = remote
              /\ BodyAt(root', last'.f) = BodyAt(root, last'.f)]_vars

----------------------------------------------------------------------------
(* Claims on listings, under SpecList and SpecListFair.                    *)

\* C3: a listing made alone from the initial offset, with a page size of 1
\* or more, is told EOF after finitely many Readdir calls, and has by then
\* returned every child of its directory once, in the order of insertion.
C3_PaginationCompletes ==
    \A s \in Sessions :
        (enum[s].alone /\ enum[s].k >= 1)
            ~> (~enum[s].alone
                \/ (enum[s].done
                    /\ enum[s].got = ChildNames(root, enum[s].dir)))

\* C4: a listing that another listing was under way with has, when it is
\* told EOF, returned exactly the children of its own directory, from the
\* first on.
C4_CursorsIndependent ==
    \A s \in Sessions :
        (enum[s].overlap /\ enum[s].done)
            => enum[s].got = ChildNames(root, enum[s].dir)

----------------------------------------------------------------------------
(* Further claims on the tree, under Spec.                                 *)

\* C11: in every tree, search("/") succeeds and returns the root itself.
C11_RootResolves ==
    (last.op = "Search" /\ last.path = <<Slash>>)
        => (last.err = nil /\ last.f = <<>>)

\* C17: remove(p) leaves the remote objects as they are; and when p names
\* a child of the root whose remote object exists, the Sync that directly
\* follows the remove (its listing did not fail) leaves a tree in which
\* search(p) succeeds.
C17_RemoveIsLocal ==
    [][/\ last'.op = "Delete" => remote' = remote
       /\ (/\ last.op = "Delete" /\ last.err = nil
           /\ PathSplit(last.path).dir = <<Slash>>
           /\ PathSplit(last.path).file \in DOMAIN remote
           /\ last'.op = "Sync" /\ last'.err # ErrList)
              => Search(root', last.path).err = nil]_vars

\* C20: every File that is a directory, the root among them, has no Blob,
\* and every File that is no directory has one.
C20_BindingInvariant ==
    \A f \in Pointers(root) : NodeAt(root, f).blob = ~NodeAt(root, f).dir

\* C21: every File that is no directory has no children.
C21_OnlyDirectoriesHaveChildren ==
    \A f \in Pointers(root) :
        ~NodeAt(root, f).dir => NodeAt(root, f).Children = <<>>

\* The tree without the File at ptr: that child cut out of its parent's
\* children, the others left in their order.
Without(t, ptr) ==
    LET up == SubSeq(ptr, 1, Len(ptr) - 1)
        i == ptr[Len(ptr)]
    IN  ReplaceAt(t, up,
            [NodeAt(t, up) EXCEPT !.Children =
                SubSeq(@, 1, i - 1) \o SubSeq(@, i + 1, Len(@))])

\* C22: a remove(p) that succeeds leaves the tree without the entry that p
\* resolves to, and as it was otherwise; a remove(p) of a p that does not
\* resolve fails as not found and leaves the tree as it was.
C22_RemoveFrame ==
    [][last'.op = "Delete"
           => IF Walk(root, Segments(last'.path), <<>>).err = nil
              THEN last'.err = nil
                      => root' = Without(root,
                             Walk(root, Segments(last'.path), <<>>).found)
              ELSE /\ last'.err \in {ErrNoParent, ErrNoChild}
                   /\ root' = root]_vars

\* C23: a Sync leaves every entry there was as it was and where it was,
\* and only appends to the root's children entries that are no
\* directories, have no children and an empty body, and are named by blobs
\* that no child of the root was named by; so the tree has no fewer entries
\* than before, and the Sync that directly follows a Sync whose listing did
\* not fail leaves the tree as it was.
C23_OneWayMerge ==
    [][last'.op = "Sync"
           => /\ Len(root'.Children) >= Len(root.Children)
              /\ SubSeq(root'.Children, 1, Len(root.Children))
                    = root.Children
              /\ \A i \in (Len(root.Children) + 1)..Len(root'.Children) :
                    /\ ~root'.Children[i].dir
                    /\ root'.Children[i].Children = <<>>
                    /\ root'.Children[i].body = <<>>
                    /\ root'.Children[i].name \in DOMAIN remote
                    /\ IndexOfName(root.Children, root'.Children[i].name, 1)
                          = 0
              /\ FileLen(root') >= FileLen(root)
              /\ (last.op = "Sync" /\ last.err # ErrList) => root' = root
      ]_vars

\* C24: the search(p) that directly follows an insert(p, _) that succeeded
\* succeeds and returns the entry the insert created: the last child of the
\* entry that the parent path of p resolves to.
C24_InsertThenSearch ==
    [][(last.op = "Insert" /\ last.err = nil
        /\ last'.op = "Search" /\ last'.path = last.path)
           => /\ last'.err = nil
              /\ last'.f = last.f
              /\ Walk(root, Segments(last.path), <<>>).err = nil
              /\ last'.f = Walk(root, Segments(last.path), <<>>).found
              /\ last'.f[Len(last'.f)]
                    = Len(NodeAt(root, SubSeq(last'.f, 1, Len(last'.f) - 1))
                              .Children)]_vars

----------------------------------------------------------------------------
(* Further claims on the content of files, under SpecContent.              *)

\* The smaller of two numbers.
Min(a, b) == IF a < b THEN a ELSE b

\* C12: a ReadAt on a non-directory entry whose buffer holds S bytes after
\* the download returns end-of-file and zero bytes at every offset >= S,
\* whatever the length asked for, and at every offset < S returns the bytes
\* there are, up to the length asked for, without an end-of-file.
C12_ReadBoundary ==
    (last.op = "ReadAt" /\ last.err # Panic /\ ~NodeAt(root, last.f).dir)
        => IF last.off >= Len(BodyAt(root, last.f))
           THEN last.err = EOF /\ last.n = 0
           ELSE /\ last.err = nil
                /\ last.n = Min(last.plen, Len(BodyAt(root, last.f)) - last.off)

\* C12 witness: a ReadAt at the very end of a buffer that holds bytes, for
\* one byte or more, was answered with end-of-file.
C12_Witness ==
    /\ last.op = "ReadAt"
    /\ ~NodeAt(root, last.f).dir
    /\ last.off = Len(BodyAt(root, last.f))
    /\ last.off >= 1
    /\ last.plen >= 1
    /\ last.err = EOF
    /\ last.n = 0

\* C13: a WriteAt at an offset beyond the length of the entry's buffer
\* fails with end-of-file and 0 bytes written, leaves the buffer as it was
\* and uploads nothing.
C13_WriteOutOfRange ==
    [][(last'.op = "WriteAt" /\ last'.off > Len(BodyAt(root, last'.f)))
           => /\ last'.err = EOF
              /\ last'.n = 0
              /\ ~last'.uploaded
              /\ remote' = remote
              /\ BodyAt(root', last'.f) = BodyAt(root, last'.f)]_vars

\* C13 witness: a WriteAt beyond the end of a buffer that holds bytes, on
\* an entry whose blob exists, was turned down.
C13_Witness ==
    /\ last.op = "WriteAt"
    /\ last.err = EOF
    /\ BodyAt(root, last.f) # <<>>
    /\ last.off > Len(BodyAt(root, last.f))
    /\ NodeAt(root, last.f).name \in DOMAIN remote

\* C18: a WriteAt of d at an offset o within the body B, whose upload
\* succeeds, returns len(d) and leaves the body B[0..o) followed by d, so
\* of length o + len(d), whatever followed in B.
C18_OverwriteFromOffset ==
    [][(last'.op = "WriteAt" /\ last'.err = nil)
           => /\ last'.n = Len(last'.data)
              /\ BodyAt(root', last'.f)
                     = SubSeq(BodyAt(root, last'.f), 1, last'.off)
                           \o last'.data
              /\ Len(BodyAt(root', last'.f)) = last'.off + Len(last'.data)
      ]_vars

\* C18 witness: a write that succeeded and left the body shorter than it
\* found it: bytes after those written were dropped.
C18_Witness ==
    /\ last.op = "WriteAt"
    /\ last.err = nil
    /\ last.data # <<>>
    /\ last.off + Len(last.data) < last.lenBefore
    /\ BodyAt(root, last.f) = last.data

\* C19: after a WriteAt that succeeded the blob of the File's name holds
\* the File's whole body; a WriteAt that failed leaves the container as it
\* was.
C19_UploadOnWrite ==
    [][last'.op = "WriteAt"
           => IF last'.err = nil
              THEN /\ NodeAt(root', last'.f).name \in DOMAIN remote'
                   /\ remote'[NodeAt(root', last'.f).name]
                          = BodyAt(root', last'.f)
              ELSE remote' = remote]_vars

\* C19 witness: a write at an offset past 0 succeeded, and the blob holds
\* the body, which is longer than what was written.
C19_Witness ==
    /\ last.op = "WriteAt"
    /\ last.err = nil
    /\ last.off >= 1
    /\ last.data # <<>>
    /\ NodeAt(root, last.f).name \in DOMAIN remote
    /\ remote[NodeAt(root, last.f).name] = BodyAt(root, last.f)
    /\ Len(BodyAt(root, last.f)) > Len(last.data)

\* C25: what a WriteAt does is decided by the body, the data and the
\* offset, not by the blob: past the body's end it is turned down and the
\* container left alone, and else what it uploads is the body up to the
\* offset followed by the data.  With an empty body a write at an offset
\* above 0 is turned down, and a write at 0 that succeeds leaves the data as
\* the blob, whatever the blob held.
C25_WriteIgnoresRemote ==
    [][last'.op = "WriteAt"
           => /\ IF last'.off > Len(BodyAt(root, last'.f))
                 THEN last'.err = EOF /\ last'.n = 0 /\ remote' = remote
                 ELSE /\ last'.err \in {nil, ErrUpload}
                      /\ last'.err = nil
                            => remote'[NodeAt(root, last'.f).name]
                                  = SubSeq(BodyAt(root, last'.f), 1,
                                           last'.off) \o last'.data
              /\ (BodyAt(root, last'.f) = <<>> /\ last'.off > 0)
                    => (last'.err = EOF /\ BodyAt(root', last'.f) = <<>>)
              /\ (BodyAt(root, last'.f) = <<>> /\ last'.off = 0
                  /\ last'.err = nil)
                    => remote'[NodeAt(root, last'.f).name] = last'.data
      ]_vars

\* C25 witness: a write at an offset above 0, within the length of the
\* blob, was turned down because the body was empty.
C25_Witness ==
    /\ last.op = "WriteAt"
    /\ last.err = EOF
    /\ last.off >= 1
    /\ BodyAt(root, last.f) = <<>>
    /\ NodeAt(root, last.f).name \in DOMAIN remote
    /\ Len(remote[NodeAt(root, last.f).name]) >= last.off

\* C16: the size Size reports is the number of the children of a
\* directory and the length of the body of any other File.
C16_SizeSemantics ==
    last.op = "Size"
        => last.n = IF NodeAt(root, last.f).dir
                    THEN Len(NodeAt(root, last.f).Children)
                    ELSE Len(BodyAt(root, last.f))

----------------------------------------------------------------------------
(* SpecRace: the goroutines of two sessions, each in a call of Sync on     *)
(* the root, as every method of File begins with, while Insert and Delete  *)
(* are called and other clients store blobs.  Sync takes no lock, so the   *)
(* statements of one call interleave with the calls of the other session;  *)
(* Insert and Delete are one step each.                                    *)

RacePaths == { <<Slash, "a">>, <<Slash, "b">> }

\* File.Sync to the make of locals: the blobs are listed and the number of
\* the root's children is read.
SyncList(s) ==
    \E ok \in BOOLEAN :
        LET l == ListBlobs(remote, ok) IN
        /\ proc[s].pc = "rest"
        /\ proc' = [proc EXCEPT ![s] =
              IF l.err # nil THEN Resting
              ELSE [Resting EXCEPT !.pc = "range", !.names = l.names,
                                   !.len = Len(root.Children)]]
        /\ last' = [NoCall EXCEPT !.op = "SyncList", !.err = l.err]
        /\ UNCHANGED <<root, remote, ReaddirOffset, reset, enum, made, spare>>

\* locals as the loop over t.Children fills it: a slice of n strings, the
\* names of the children in its first places.
RangeLocals(t, n) ==
    [i \in 1..n |-> IF i <= Len(t.Children) THEN t.Children[i].name ELSE <<>>]

\* File.Sync's loop over t.Children and its call of missingLocally.  The
\* loop ranges over the children there are now and indexes locals, which
\* has the length read before: with more children now the index is out of
\* range and the goroutine panics.
SyncRange(s) ==
    /\ proc[s].pc = "range"
    /\ IF Len(root.Children) > proc[s].len
       THEN /\ proc' = [proc EXCEPT ![s] = Resting]
            /\ last' = [NoCall EXCEPT !.op = "SyncRange", !.err = Panic]
       ELSE /\ proc' = [proc EXCEPT ![s] =
                  [Resting EXCEPT !.pc = "insert",
                      !.names = missingLocally(RangeLocals(root, proc[s].len),
                                               proc[s].names)]]
            /\ last' = [NoCall EXCEPT !.op = "SyncRange"]
    /\ UNCHANGED <<root, remote, ReaddirOffset, reset, enum, made, spare>>

\* One turn of File.Sync's loop over diff, or its return when diff is
\* exhausted or the Insert failed.
SyncInsert(s) ==
    /\ proc[s].pc = "insert"
    /\ IF proc[s].names = <<>>
       THEN /\ proc' = [proc EXCEPT ![s] = Resting]
            /\ last' = [NoCall EXCEPT !.op = "SyncReturn"]
            /\ root' = root
       ELSE LET r == Insert(root, <<Slash>> \o Head(proc[s].names), FALSE) IN
            /\ FileLen(r.tree) <= MaxEntries
            /\ root' = r.tree
            /\ proc' = [proc EXCEPT ![s] =
                  IF r.err # nil THEN Resting
                  ELSE [@ EXCEPT !.names = Tail(proc[s].names)]]
            /\ last' = [NoCall EXCEPT !.op = "SyncInsert",
                           !.err = IF r.err # nil THEN ErrInsert ELSE nil]
    /\ UNCHANGED <<remote, ReaddirOffset, reset, enum, made, spare>>

RaceInsert == DoInsert(RacePaths, BOOLEAN, MaxEntries)
RaceDelete == DoDelete(RacePaths)
RacePut == RemotePut(BlobNames, {<<>>})
RaceSync == \E s \in Sessions : SyncList(s) \/ SyncRange(s) \/ SyncInsert(s)

NextRace ==
    \/ RaceInsert
    \/ RaceDelete
    \/ RacePut
    \/ RaceSync

SpecRace == Init /\ [][NextRace]_vars

----------------------------------------------------------------------------
(* Claims on concurrent calls, under SpecRace.                             *)

\* C14: changes of the tree's structure exclude the traversals of it: while
\* a call of Sync is between reading the number of the root's children and
\* ranging over them, no step changes the tree.
C14_StructuralExclusion ==
    [][root' # root => \A s \in Sessions : proc[s].pc # "range"]_vars

----------------------------------------------------------------------------
(* SpecOverlap: the goroutines of two sessions in calls of WriteAt and     *)
(* ReadAt on the file "/b", while other clients store blob "b".  Neither   *)
(* call takes a lock, so each touches the body statement by statement,     *)
(* between the statements of the other session's call.  The body's array   *)
(* is the body followed by spare; a buf taken with Contents() reads the    *)
(* array's first len(buf) bytes.                                           *)

\* The longest body the concurrent calls make, and their largest offset.
MaxShared == 1

\* The tree with b as the body of the File at f.
SetBody(t, f, b) == ReplaceAt(t, f, [NodeAt(t, f) EXCEPT !.body = b])

\* The array of the body of the File at f.
Array(t, f) == NodeAt(t, f).body \o spare

\* What is left of tail after its first n bytes.
Rest(tail, n) == SubSeq(tail, n + 1, Len(tail))

\* File.WriteAt to its test of the offset, in the tree t its Sync left: buf
\* is taken; the call returns EOF or goes on to Truncate or to Write.
WriteContents(s, t, f, p, off) ==
    /\ FileLen(t) <= MaxEntries
    /\ root' = t
    /\ proc' = [proc EXCEPT ![s] =
          IF off > Len(Contents(NodeAt(t, f))) THEN Resting
          ELSE [Resting EXCEPT
                   !.pc = IF off < Len(Contents(NodeAt(t, f)))
                          THEN "Truncate" ELSE "Write",
                   !.f = f, !.buf = Contents(NodeAt(t, f)), !.p = p,
                   !.off = off]]
    /\ last' = [NoCall EXCEPT !.op = "WriteAt",
                   !.err = IF off > Len(Contents(NodeAt(t, f))) THEN EOF
                           ELSE nil]
    /\ UNCHANGED <<remote, ReaddirOffset, reset, enum, made, spare>>

\* A session calls WriteAt on a File that has a Blob.
WriteBegin(s) ==
    \E f \in Pointers(root), p \in ByteSeqs(MaxShared), off \in 0..MaxShared,
       ok \in BOOLEAN :
        /\ proc[s].pc = "rest"
        /\ NodeAt(root, f).blob
        /\ WriteContents(s, Sync(root, remote, ok).tree, f, p, off)

\* f.Blob.body.Truncate(int(off)), which panics when the body has fewer
\* than off bytes by now.
WriteTruncate(s) ==
    /\ proc[s].pc = "Truncate"
    /\ IF proc[s].off > Len(NodeAt(root, proc[s].f).body)
       THEN /\ proc' = [proc EXCEPT ![s] = Resting]
            /\ last' = [NoCall EXCEPT !.op = "Truncate", !.err = Panic]
            /\ UNCHANGED <<root, spare>>
       ELSE /\ root' = SetBody(root, proc[s].f,
                          BufferTruncate(NodeAt(root, proc[s].f).body,
                                         proc[s].off))
            /\ spare' = Rest(NodeAt(root, proc[s].f).body, proc[s].off)
                            \o spare
            /\ proc' = [proc EXCEPT ![s].pc = "Write"]
            /\ last' = [NoCall EXCEPT !.op = "Truncate"]
    /\ UNCHANGED <<remote, ReaddirOffset, reset, enum, made>>

\* f.Blob.body.Write(p), in place.
WriteBody(s) ==
    /\ proc[s].pc = "Write"
    /\ Len(NodeAt(root, proc[s].f).body) + Len(proc[s].p) <= MaxShared
    /\ root' = SetBody(root, proc[s].f,
                  BufferWrite(NodeAt(root, proc[s].f).body, proc[s].p).body)
    /\ spare' = Rest(spare, Len(proc[s].p))
    /\ proc' = [proc EXCEPT ![s].pc = "Upload"]
    /\ last' = [NoCall EXCEPT !.op = "Write"]
    /\ UNCHANGED <<remote, ReaddirOffset, reset, enum, made>>

\* The end of File.WriteAt, u being the outcome of f.Blob.Upload: the call
\* returns, after Reset and Write(buf) when the upload failed.
WriteReturn(s, u) ==
    /\ remote' = u.store
    /\ IF u.err = nil
       THEN UNCHANGED <<root, spare>>
       ELSE /\ root' = SetBody(root, proc[s].f,
                          SubSeq(Array(root, proc[s].f), 1,
                                 Len(proc[s].buf)))
            /\ spare' = Rest(Array(root, proc[s].f), Len(proc[s].buf))
    /\ proc' = [proc EXCEPT ![s] = Resting]
    /\ last' = [NoCall EXCEPT !.op = "Upload", !.err = u.err,
                   !.uploaded = (u.err = nil),
                   !.n = IF u.err = nil THEN Len(proc[s].p) ELSE 0]
    /\ UNCHANGED <<ReaddirOffset, reset, enum, made>>

WriteUploaded(s) ==
    \E ok \in BOOLEAN :
        /\ proc[s].pc = "Upload"
        /\ WriteReturn(s, Upload(remote, NodeAt(root, proc[s].f).name,
                                 NodeAt(root, proc[s].f).body, ok))

\* File.ReadAt to the Reset in Blob.Download, in the tree t its Sync left:
\* the request for the blob is answered, or the nil response panics.
ReadDownload(s, t, f, plen, off, downloadOk) ==
    /\ FileLen(t) <= MaxEntries
    /\ IF ~downloadOk \/ NodeAt(t, f).name \notin DOMAIN remote
       THEN /\ root' = t
            /\ spare' = spare
            /\ proc' = [proc EXCEPT ![s] = Resting]
            /\ last' = [NoCall EXCEPT !.op = "ReadAt", !.err = Panic]
       ELSE /\ root' = SetBody(t, f, <<>>)
            /\ spare' = Array(t, f)
            /\ proc' = [proc EXCEPT ![s] =
                  [Resting EXCEPT !.pc = "ReadFrom", !.f = f,
                      !.buf = remote[NodeAt(t, f).name], !.len = plen,
                      !.off = off]]
            /\ last' = [NoCall EXCEPT !.op = "ReadAt"]
    /\ UNCHANGED <<remote, ReaddirOffset, reset, enum, made>>

\* A session calls ReadAt on a File that has a Blob.
ReadBegin(s) ==
    \E f \in Pointers(root), plen \in 0..MaxShared, off \in 0..MaxShared,
       ok \in BOOLEAN, dl \in BOOLEAN :
        /\ proc[s].pc = "rest"
        /\ NodeAt(root, f).blob
        /\ ReadDownload(s, Sync(root, remote, ok).tree, f, plen, off, dl)

\* b.body.ReadFrom(bodyStream): the blob's bytes written after the body's.
ReadFrom(s) ==
    /\ proc[s].pc = "ReadFrom"
    /\ Len(NodeAt(root, proc[s].f).body) + Len(proc[s].buf) <= MaxShared
    /\ root' = SetBody(root, proc[s].f,
                  BufferWrite(NodeAt(root, proc[s].f).body, proc[s].buf).body)
    /\ spare' = Rest(spare, Len(proc[s].buf))
    /\ proc' = [proc EXCEPT ![s].pc = "Size"]
    /\ last' = [NoCall EXCEPT !.op = "ReadFrom"]
    /\ UNCHANGED <<remote, ReaddirOffset, reset, enum, made>>

\* The end of File.ReadAt, r being its outcome.
ReadReturn(s, r) ==
    /\ FileLen(r.tree) <= MaxEntries
    /\ root' = r.tree
    /\ proc' = [proc EXCEPT ![s] = Resting]
    /\ last' = [NoCall EXCEPT !.op = "Size", !.err = r.err, !.n = r.n]
    /\ UNCHANGED <<remote, ReaddirOffset, reset, enum, made, spare>>

ReadSize(s) ==
    \E ok \in BOOLEAN :
        /\ proc[s].pc = "Size"
        /\ ReadReturn(s, ReadCopy(nil,
                             Sync(Sync(root, remote, ok).tree, remote,
                                  ok).tree,
                             proc[s].f, proc[s].len, proc[s].off))

OverlapInsert == DoInsert(ContentPaths, {FALSE}, MaxEntries)
OverlapPut == RemotePut(ContentBlobs, ByteSeqs(MaxShared))
OverlapWrite ==
    \E s \in Sessions :
        WriteBegin(s) \/ WriteTruncate(s) \/ WriteBody(s) \/ WriteUploaded(s)
OverlapRead == \E s \in Sessions : ReadBegin(s) \/ ReadFrom(s) \/ ReadSize(s)

NextOverlap ==
    \/ OverlapInsert
    \/ OverlapPut
    \/ OverlapWrite
    \/ OverlapRead

SpecOverlap == Init /\ [][NextOverlap]_vars

\* C15: calls of WriteAt and ReadAt on one file take effect one after the
\* other: what a WriteAt uploads is the body as the call found it, cut at
\* the call's offset, followed by the call's data.
C15_ContentExclusion ==
    [][\A s \in Sessions :
          (proc[s].pc = "Upload" /\ proc'[s].pc = "rest" /\ last'.uploaded)
              => remote'[NodeAt(root, proc[s].f).name]
                     = BufferTruncate(proc[s].buf, proc[s].off) \o proc[s].p
      ]_vars

====
